---- MODULE Spec2Model ----
(***************************************************************************)
(* Per-layout B-tree traits of src/btree/bt_traits_details.c: the Huffman  *)
(* configuration gate, the cursor validity check, the row-store iteration  *)
(* setup and the diagnostic key-order checker.                             *)
(*                                                                         *)
(* Functions of other files are modelled at the interface this file uses:  *)
(* __wt_txn_read (visibility resolver), __wt_compare (key comparator),     *)
(* __wt_cell_type (cell decoding).  Memory allocation (__wt_buf_set,       *)
(* __wt_scr_alloc) is taken to succeed.                                    *)
(***************************************************************************)
EXTENDS Integers, Sequences, FiniteSets, TLC

\* ------------------------------------------------------------------ bounds
\* Width in bits of the model's "uint32_t" (slot, row_iteration_slot).
SlotBits == 4
\* Largest page->entries of a column-store page.
MaxColEntries == 3
\* Largest page->entries of a row-store page.
MaxRowEntries == 2
\* Most updates in the update chains of one row-store page.
MaxUpdates == 2
\* Largest record number and largest ref_recno.
MaxRecno == 4
\* Longest row-store key, in bytes.
MaxKeyLen == 2
\* Longest remembered run of returned positions.
MaxRun == 3
\* Largest Huffman table length offered to the gate.
MaxLen == 3

\* --------------------------------------------------------------- constants
UINT32_MAX == 2 ^ SlotBits - 1
WT_RECNO_OOB == 0
\* Pointers are records; this is the null pointer.
NULL == [null |-> TRUE]
\* Return values; a failed WT_ASSERT ends the process with SIGABRT.
EINVAL == 22
WT_PANIC == -31804
WT_PREPARE_CONFLICT == -31808
SIGABRT == 6

WT_PAGE_COL_FIX == "WT_PAGE_COL_FIX"
WT_PAGE_COL_VAR == "WT_PAGE_COL_VAR"
WT_PAGE_ROW_LEAF == "WT_PAGE_ROW_LEAF"
PageTypes == {WT_PAGE_COL_FIX, WT_PAGE_COL_VAR, WT_PAGE_ROW_LEAF}

WT_CELL_DEL == "WT_CELL_DEL"
WT_CELL_VALUE == "WT_CELL_VALUE"
CellTypes == {WT_CELL_DEL, WT_CELL_VALUE}

WT_UPDATE_TOMBSTONE == "WT_UPDATE_TOMBSTONE"
WT_UPDATE_STANDARD == "WT_UPDATE_STANDARD"

VARIABLES
    ref,       \* WT_REF: ref_recno and the page it references
    cbt,       \* WT_CURSOR_BTREE
    btree,     \* WT_BTREE: page layout of the tree and its collator
    call,      \* the last call: function, arguments, return value, out-parameters
    returned   \* positions returned by the current run of passing order checks

vars == <<ref, cbt, btree, call, returned>>

\* Sequences over S of length at most n.
SeqUpTo(S, n) == UNION {[1..k -> S] : k \in 0..n}

\* ------------------------------------------------------- visibility resolver
\* An update of a chain, as the reading transaction sees it.
UpdateKinds ==
    { [type |-> WT_UPDATE_TOMBSTONE, txn |-> "visible"],
      [type |-> WT_UPDATE_STANDARD, txn |-> "visible"],
      [type |-> WT_UPDATE_STANDARD, txn |-> "invisible"],
      [type |-> WT_UPDATE_STANDARD, txn |-> "prepared"] }

Chains == SeqUpTo(UpdateKinds, MaxUpdates)

\* The update at index i of the chain held in array entry slot.
Upd(slot, chain, i) == [slot |-> slot, idx |-> i, type |-> chain[i].type]

\* __wt_txn_read: the newest update of the chain visible to the transaction,
\* NULL if there is none; a prepared update met on the way is a conflict.
RECURSIVE TxnReadFrom(_, _, _)
TxnReadFrom(slot, chain, i) ==
    IF i > Len(chain) THEN [ret |-> 0, upd |-> NULL]
    ELSE IF chain[i].txn = "prepared" THEN [ret |-> WT_PREPARE_CONFLICT, upd |-> NULL]
    ELSE IF chain[i].txn = "visible" THEN [ret |-> 0, upd |-> Upd(slot, chain, i)]
    ELSE TxnReadFrom(slot, chain, i + 1)

__wt_txn_read(slot, chain) == TxnReadFrom(slot, chain, 1)

\* ------------------------------------------------------------ Huffman gate
__bt_col_fix_huffman(len) == EINVAL

\* Mutant: the length test inverted.
ColVarHuffmanInverted(len) == IF len = 0 THEN EINVAL ELSE 0

__bt_col_var_huffman(len) == IF len # 0 THEN EINVAL ELSE 0

__bt_row_huffman(len) == 0

\* ---------------------------------------------------- cursor validity check
\* What a validity check leaves behind: its return value, *valid, *updp, and
\* the array entries it read (array name, index).
Out(ret, valid, upd, reads) ==
    [ret |-> ret, valid |-> valid, upd |-> upd, reads |-> reads]

\* WT_ASSERT(session, cbt->slot == UINT32_MAX || cbt->slot < page->entries)
SlotAssert(c, page) == c.slot = UINT32_MAX \/ c.slot < page.entries

\* Mutant: the end-of-page test off by one.
ColFixValidOffByOne(c, r, updp, valid, upd) ==
    IF c.recno > r.ref_recno + r.page.entries
    THEN {Out(0, valid, upd, {})}
    ELSE {Out(0, TRUE, upd, {})}

\* valid and upd are the values *valid and *updp hold on entry; updp is FALSE
\* when the caller passes updp == NULL.
__bt_col_fix_cursor_valid(c, r, updp, valid, upd) ==
    IF c.recno >= r.ref_recno + r.page.entries
    THEN {Out(0, valid, upd, {})}
    ELSE {Out(0, TRUE, upd, {})}

\* page->pg_var[slot]: the cell of an on-page slot; an index past the array
\* reads whatever lies there.
ColVarCell(page, slot) ==
    IF slot < page.entries THEN {page.pg_var[slot + 1]} ELSE CellTypes

\* Mutant: the deleted-cell test left out.
ColVarValidNoDelCheck(c, r, updp, valid, upd) ==
    LET page == r.page IN
    IF page.entries = 0 THEN {Out(0, valid, upd, {})}
    ELSE IF ~SlotAssert(c, page) THEN {Out(SIGABRT, valid, upd, {})}
    ELSE IF c.ins # NULL /\ ~c.WT_CBT_VAR_ONPAGE_MATCH THEN {Out(0, valid, upd, {})}
    ELSE {Out(0, TRUE, upd, {<<"pg_var", c.slot>>})}

__bt_col_var_cursor_valid(c, r, updp, valid, upd) ==
    LET page == r.page IN
    IF page.entries = 0 THEN {Out(0, valid, upd, {})}
    ELSE IF ~SlotAssert(c, page) THEN {Out(SIGABRT, valid, upd, {})}
    ELSE IF c.ins # NULL /\ ~c.WT_CBT_VAR_ONPAGE_MATCH THEN {Out(0, valid, upd, {})}
    ELSE { IF cell = WT_CELL_DEL
           THEN Out(0, valid, upd, {<<"pg_var", c.slot>>})
           ELSE Out(0, TRUE, upd, {<<"pg_var", c.slot>>})
           : cell \in ColVarCell(page, c.slot) }

\* page->modify->mod_row_update[slot]: the chain of an on-page slot; an index
\* past the array reads whatever lies there.
RowUpdateChain(page, slot) ==
    IF slot < page.entries THEN {page.modify.mod_row_update.array[slot + 1]} ELSE Chains

\* Mutant: a visible tombstone is returned like any other update.
RowAfterReadNoTombstone(c, res, updp, valid, upd) ==
    LET reads == {<<"mod_row_update", c.slot>>, <<"__wt_txn_read", c.slot>>} IN
    IF res.ret # 0 THEN Out(res.ret, valid, upd, reads)
    ELSE IF res.upd # NULL /\ updp THEN Out(0, TRUE, res.upd, reads)
    ELSE Out(0, TRUE, upd, reads)

\* Mutant: a resolver failure is swallowed and the on-page value used.
RowAfterReadSwallow(c, res, updp, valid, upd) ==
    LET reads == {<<"mod_row_update", c.slot>>, <<"__wt_txn_read", c.slot>>} IN
    IF res.ret # 0 THEN Out(0, TRUE, upd, reads)
    ELSE IF res.upd # NULL /\ res.upd.type = WT_UPDATE_TOMBSTONE
         THEN Out(0, valid, upd, reads)
    ELSE IF res.upd # NULL /\ updp THEN Out(0, TRUE, res.upd, reads)
    ELSE Out(0, TRUE, upd, reads)

\* The rest of the row check once the resolver has answered.
RowAfterRead(c, res, updp, valid, upd) ==
    LET reads == {<<"mod_row_update", c.slot>>, <<"__wt_txn_read", c.slot>>} IN
    IF res.ret # 0 THEN Out(res.ret, valid, upd, reads)
    ELSE IF res.upd # NULL /\ res.upd.type = WT_UPDATE_TOMBSTONE
         THEN Out(0, valid, upd, reads)
    ELSE IF res.upd # NULL /\ updp THEN Out(0, TRUE, res.upd, reads)
    ELSE Out(0, TRUE, upd, reads)

\* Mutant: the update chain is checked before the insert object.
RowValidUpdateFirst(c, r, updp, valid, upd) ==
    LET page == r.page IN
    IF page.entries = 0 THEN {Out(0, valid, upd, {})}
    ELSE IF ~SlotAssert(c, page) THEN {Out(SIGABRT, valid, upd, {})}
    ELSE IF page.modify # NULL /\ page.modify.mod_row_update # NULL
         THEN { RowAfterRead(c, __wt_txn_read(c.slot, chain), updp, valid, upd)
                : chain \in RowUpdateChain(page, c.slot) }
    ELSE IF c.ins # NULL THEN {Out(0, valid, upd, {})}
    ELSE {Out(0, TRUE, upd, {})}

__bt_row_cursor_valid(c, r, updp, valid, upd) ==
    LET page == r.page IN
    IF page.entries = 0 THEN {Out(0, valid, upd, {})}
    ELSE IF ~SlotAssert(c, page) THEN {Out(SIGABRT, valid, upd, {})}
    ELSE IF c.ins # NULL THEN {Out(0, valid, upd, {})}
    ELSE IF page.modify # NULL /\ page.modify.mod_row_update # NULL
         THEN { RowAfterRead(c, __wt_txn_read(c.slot, chain), updp, valid, upd)
                : chain \in RowUpdateChain(page, c.slot) }
    ELSE {Out(0, TRUE, upd, {})}

\* -------------------------------------------------------- iteration setup
\* The page's smallest-key insert list, NULL when the page has no insert lists.
WT_ROW_INSERT_SMALLEST(page) ==
    IF page.modify = NULL \/ page.modify.mod_row_insert = NULL
    THEN NULL
    ELSE [list |-> "WT_ROW_INSERT_SMALLEST"]

\* uint32_t arithmetic.
U32(n) == n % (2 ^ SlotBits)

\* Mutant: an insert list keeps the slot of the on-page entry before it.
RowIterateSetupNoIncrement(c, r) ==
    LET page == r.page
        slot2 == U32(U32(c.slot + 1) * 2)
    IN  [c EXCEPT !.row_iteration_slot =
            IF c.ins_head # NULL
            THEN IF c.ins_head = WT_ROW_INSERT_SMALLEST(page) THEN 1 ELSE slot2
            ELSE slot2]

__bt_row_cursor_iterate_setup(c, r) ==
    LET page == r.page
        slot2 == U32(U32(c.slot + 1) * 2)
    IN  [c EXCEPT !.row_iteration_slot =
            IF c.ins_head # NULL
            THEN IF c.ins_head = WT_ROW_INSERT_SMALLEST(page) THEN 1 ELSE U32(slot2 + 1)
            ELSE slot2]

\* ------------------------------------------------------- key-order checker
Bytes == {1, 2}
Keys == SeqUpTo(Bytes, MaxKeyLen) \ {<<>>}
Recnos == 1..MaxRecno

\* __wt_lex_compare: byte-wise, a proper prefix sorts first.
RECURSIVE LexFrom(_, _, _)
LexFrom(a, b, i) ==
    IF i > Len(a) \/ i > Len(b)
    THEN IF Len(a) = Len(b) THEN 0 ELSE IF Len(a) < Len(b) THEN -1 ELSE 1
    ELSE IF a[i] # b[i] THEN IF a[i] < b[i] THEN -1 ELSE 1
    ELSE LexFrom(a, b, i + 1)

__wt_lex_compare(a, b) == LexFrom(a, b, 1)

\* __wt_compare: the tree's collator, byte-wise when none is configured.  The
\* configured collator of the model orders keys in reverse.
__wt_compare(collator, a, b) ==
    IF collator = NULL THEN __wt_lex_compare(a, b) ELSE 0 - __wt_lex_compare(a, b)

__bt_col_cursor_key_order_init(c) ==
    [ret |-> 0, cbt |-> [c EXCEPT !.lastrecno = c.recno]]

__bt_row_cursor_key_order_init(c) ==
    [ret |-> 0, cbt |-> [c EXCEPT !.lastkey = c.key]]

\* Mutant: a repeated record number passes.
ColKeyOrderCheckAllowEqual(c, next) ==
    LET cmp == IF c.lastrecno # WT_RECNO_OOB
               THEN IF c.lastrecno < c.recno THEN -1
                    ELSE IF c.lastrecno > c.recno THEN 1 ELSE 0
               ELSE 0
    IN  IF c.lastrecno = WT_RECNO_OOB \/ (next /\ cmp <= 0) \/ (~next /\ cmp >= 0)
        THEN [ret |-> 0, cbt |-> [c EXCEPT !.lastrecno = c.recno]]
        ELSE [ret |-> WT_PANIC, cbt |-> c]

__bt_col_cursor_key_order_check(c, next) ==
    LET cmp == IF c.lastrecno # WT_RECNO_OOB
               THEN IF c.lastrecno < c.recno THEN -1
                    ELSE IF c.lastrecno > c.recno THEN 1 ELSE 0
               ELSE 0
    IN  IF c.lastrecno = WT_RECNO_OOB \/ (next /\ cmp < 0) \/ (~next /\ cmp > 0)
        THEN [ret |-> 0, cbt |-> [c EXCEPT !.lastrecno = c.recno]]
        ELSE [ret |-> WT_PANIC, cbt |-> c]

__bt_row_cursor_key_order_check(bt, c, next) ==
    LET cmp == IF Len(c.lastkey) # 0 THEN __wt_compare(bt.collator, c.lastkey, c.key) ELSE 0
    IN  IF Len(c.lastkey) = 0 \/ (next /\ cmp < 0) \/ (~next /\ cmp > 0)
        THEN [ret |-> 0, cbt |-> [c EXCEPT !.lastkey = c.key]]
        ELSE [ret |-> WT_PANIC, cbt |-> c]

\* Mutant: only the row-store baseline is cleared.
KeyOrderResetRowOnly(c) == [c EXCEPT !.lastkey = <<>>]

__bt_cursor_key_order_reset(c) ==
    [c EXCEPT !.lastkey = <<>>, !.lastrecno = WT_RECNO_OOB]

\* ------------------------------------------------------------------ states
Ins == {NULL, [node |-> "WT_INSERT"]}
InsHeads == {NULL, [list |-> "WT_ROW_INSERT_SMALLEST"], [list |-> "WT_ROW_INSERT_SLOT"]}

Page(type, entries, pg_var, modify) ==
    [type |-> type, entries |-> entries, pg_var |-> pg_var, modify |-> modify]

Ref(recno, page) == [ref_recno |-> recno, page |-> page]

\* A cursor that is not positioned.
CbtOpen ==
    [slot |-> 0, ins |-> NULL, ins_head |-> NULL, WT_CBT_VAR_ONPAGE_MATCH |-> FALSE,
     recno |-> WT_RECNO_OOB, row_iteration_slot |-> 0,
     lastrecno |-> WT_RECNO_OOB, lastkey |-> <<>>, key |-> <<>>]

NoCall == [op |-> "none", arg |-> NULL, ret |-> 0, valid |-> FALSE, upd |-> NULL, reads |-> {}]

NoRun == [start |-> "open", dir |-> "none", seq |-> <<>>]

\* Slot values of a positioned cursor: an on-page slot, or UINT32_MAX.
Slots(page) == (0..(page.entries - 1)) \cup {UINT32_MAX}

FixRefs ==
    {Ref(b, Page(WT_PAGE_COL_FIX, e, <<>>, NULL)) : b \in Recnos, e \in 0..MaxColEntries}

VarRefs ==
    {Ref(1, Page(WT_PAGE_COL_VAR, Len(cells), cells, NULL)) :
        cells \in SeqUpTo(CellTypes, MaxColEntries)}

RowModifies(e, updates) ==
    {NULL} \cup [mod_row_update : {NULL} \cup {[array |-> u] : u \in updates},
               mod_row_insert : {NULL, [lists |-> TRUE]}]

\* Update arrays of e chains holding at most n updates together.
RECURSIVE UpdateArrays(_, _)
UpdateArrays(e, n) ==
    IF e = 0 THEN {<<>>}
    ELSE UNION { {Append(a, chain) : a \in UpdateArrays(e - 1, n - Len(chain))} :
                 chain \in SeqUpTo(UpdateKinds, n) }

RowRefs ==
    UNION { {Ref(1, Page(WT_PAGE_ROW_LEAF, e, <<>>, m)) :
                m \in RowModifies(e, UpdateArrays(e, MaxUpdates))} :
            e \in 0..MaxRowEntries }

\* Row pages as the iteration setup sees them: without update chains.
RowRefsNoUpdates ==
    UNION { {Ref(1, Page(WT_PAGE_ROW_LEAF, e, <<>>, m)) : m \in RowModifies(e, {})} :
            e \in 0..MaxRowEntries }

HasInsertLists(page) == page.modify # NULL /\ page.modify.mod_row_insert # NULL

FixCursors(r) ==
    {[CbtOpen EXCEPT !.recno = n, !.ins = i] : n \in Recnos, i \in Ins}

VarCursors(r) ==
    {[CbtOpen EXCEPT !.slot = s, !.ins = i, !.WT_CBT_VAR_ONPAGE_MATCH = f, !.recno = 1] :
        s \in Slots(r.page), i \in Ins, f \in BOOLEAN}

RowCursors(r) ==
    {[CbtOpen EXCEPT !.slot = s, !.ins = i] :
        s \in Slots(r.page), i \in IF HasInsertLists(r.page) THEN Ins ELSE {NULL}}

Cursors(r) ==
    IF r.page.type = WT_PAGE_COL_FIX THEN FixCursors(r)
    ELSE IF r.page.type = WT_PAGE_COL_VAR THEN VarCursors(r)
    ELSE RowCursors(r)

\* A fatal error ends the process.
Running == call.ret \notin {SIGABRT, WT_PANIC}

\* ------------------------------------------------- cursor validity: actions
ValidInit ==
    /\ ref \in FixRefs \cup VarRefs \cup RowRefs
    /\ cbt \in Cursors(ref)
    /\ btree = [type |-> ref.page.type, collator |-> NULL]
    /\ call = NoCall
    /\ returned = NoRun

ValidCall(updp, o) ==
    [op |-> "cursor_valid", arg |-> [updp |-> updp], ret |-> o.ret, valid |-> o.valid,
     upd |-> o.upd, reads |-> o.reads]

\* The caller clears *valid and *updp before it dispatches on the page type.
ColFixCursorValid ==
    /\ Running
    /\ ref.page.type = WT_PAGE_COL_FIX
    /\ \E updp \in BOOLEAN :
         \E o \in __bt_col_fix_cursor_valid(cbt, ref, updp, FALSE, NULL) :
            call' = ValidCall(updp, o)
    /\ UNCHANGED <<ref, cbt, btree, returned>>

ColVarCursorValid ==
    /\ Running
    /\ ref.page.type = WT_PAGE_COL_VAR
    /\ \E updp \in BOOLEAN :
         \E o \in __bt_col_var_cursor_valid(cbt, ref, updp, FALSE, NULL) :
            call' = ValidCall(updp, o)
    /\ UNCHANGED <<ref, cbt, btree, returned>>

RowCursorValid ==
    /\ Running
    /\ ref.page.type = WT_PAGE_ROW_LEAF
    /\ \E updp \in BOOLEAN :
         \E o \in __bt_row_cursor_valid(cbt, ref, updp, FALSE, NULL) :
            call' = ValidCall(updp, o)
    /\ UNCHANGED <<ref, cbt, btree, returned>>

ValidNext == ColFixCursorValid \/ ColVarCursorValid \/ RowCursorValid

SpecValid == ValidInit /\ [][ValidNext]_vars

\* --------------------------------------------------- Huffman gate: actions
GateInit ==
    /\ ref \in FixRefs \cup VarRefs \cup RowRefsNoUpdates
    /\ cbt = CbtOpen
    /\ btree = [type |-> ref.page.type, collator |-> NULL]
    /\ call = NoCall
    /\ returned = NoRun

HuffmanCall(len, ret) == [NoCall EXCEPT !.op = "huffman", !.arg = [len |-> len], !.ret = ret]

ColFixHuffman ==
    /\ btree.type = WT_PAGE_COL_FIX
    /\ \E len \in 0..MaxLen : call' = HuffmanCall(len, __bt_col_fix_huffman(len))
    /\ UNCHANGED <<ref, cbt, btree, returned>>

ColVarHuffman ==
    /\ btree.type = WT_PAGE_COL_VAR
    /\ \E len \in 0..MaxLen : call' = HuffmanCall(len, __bt_col_var_huffman(len))
    /\ UNCHANGED <<ref, cbt, btree, returned>>

RowHuffman ==
    /\ btree.type = WT_PAGE_ROW_LEAF
    /\ \E len \in 0..MaxLen : call' = HuffmanCall(len, __bt_row_huffman(len))
    /\ UNCHANGED <<ref, cbt, btree, returned>>

GateNext == ColFixHuffman \/ ColVarHuffman \/ RowHuffman

SpecGate == GateInit /\ [][GateNext]_vars

\* ------------------------------------------------ iteration setup: actions
IterCursors(r) ==
    {[CbtOpen EXCEPT !.slot = s, !.ins_head = h, !.ins = i, !.row_iteration_slot = stale] :
        s \in Slots(r.page),
        h \in IF HasInsertLists(r.page) THEN InsHeads ELSE {NULL},
        i \in Ins,
        stale \in 0..UINT32_MAX}

IterInit ==
    /\ ref \in RowRefsNoUpdates
    /\ cbt \in {c \in IterCursors(ref) : c.ins # NULL => c.ins_head # NULL}
    /\ btree = [type |-> WT_PAGE_ROW_LEAF, collator |-> NULL]
    /\ call = NoCall
    /\ returned = NoRun

RowCursorIterateSetup ==
    /\ ref.page.type = WT_PAGE_ROW_LEAF
    /\ cbt' = __bt_row_cursor_iterate_setup(cbt, ref)
    /\ call' = [NoCall EXCEPT !.op = "iterate_setup"]
    /\ UNCHANGED <<ref, btree, returned>>

IterNext == RowCursorIterateSetup

SpecIter == IterInit /\ [][IterNext]_vars

\* ------------------------------------------------ key-order checker: actions
IsCol == btree.type \in {WT_PAGE_COL_FIX, WT_PAGE_COL_VAR}
IsRow == btree.type = WT_PAGE_ROW_LEAF

OrderInit ==
    /\ btree \in [type : PageTypes, collator : {NULL}]
                 \cup {[type |-> WT_PAGE_ROW_LEAF, collator |-> [name |-> "reverse"]]}
    /\ ref = Ref(1, Page(btree.type, 0, <<>>, NULL))
    /\ cbt = CbtOpen
    /\ call = NoCall
    /\ returned = NoRun

OrderCall(op, arg, ret) == [NoCall EXCEPT !.op = op, !.arg = arg, !.ret = ret]

Last(seq) == seq[Len(seq)]

Trim(seq) == IF Len(seq) > MaxRun THEN Tail(seq) ELSE seq

\* The run of returned positions after a passing check at pos: the first check
\* after a reset starts it, a check in the other direction starts a new run
\* from the position returned before.
Extend(run, pos, next) ==
    LET d == IF next THEN "next" ELSE "prev" IN
    IF run.seq = <<>> THEN [run EXCEPT !.seq = <<pos>>]
    ELSE IF run.dir \in {"none", d}
         THEN [run EXCEPT !.dir = d, !.seq = Trim(Append(run.seq, pos))]
    ELSE [run EXCEPT !.dir = d, !.seq = <<Last(run.seq), pos>>]

\* A search has positioned the cursor at record number r.
ColKeyOrderInit ==
    /\ Running
    /\ IsCol
    /\ \E r \in Recnos :
         LET o == __bt_col_cursor_key_order_init([cbt EXCEPT !.recno = r]) IN
         /\ cbt' = o.cbt
         /\ call' = OrderCall("init", [pos |-> r], o.ret)
         /\ returned' = [start |-> "init", dir |-> "none", seq |-> <<r>>]
    /\ UNCHANGED <<ref, btree>>

\* A search has positioned the cursor at key k.
RowKeyOrderInit ==
    /\ Running
    /\ IsRow
    /\ \E k \in Keys :
         LET o == __bt_row_cursor_key_order_init([cbt EXCEPT !.key = k]) IN
         /\ cbt' = o.cbt
         /\ call' = OrderCall("init", [pos |-> k], o.ret)
         /\ returned' = [start |-> "init", dir |-> "none", seq |-> <<k>>]
    /\ UNCHANGED <<ref, btree>>

\* A next (or prev) has moved the cursor to record number r.
ColKeyOrderCheck ==
    /\ Running
    /\ IsCol
    /\ \E r \in Recnos, next \in BOOLEAN :
         LET o == __bt_col_cursor_key_order_check([cbt EXCEPT !.recno = r], next) IN
         /\ cbt' = o.cbt
         /\ call' = OrderCall("check", [pos |-> r, next |-> next, base |-> cbt.lastrecno], o.ret)
         /\ returned' = IF o.ret = 0 THEN Extend(returned, r, next) ELSE returned
    /\ UNCHANGED <<ref, btree>>

\* A next (or prev) has moved the cursor to key k.
RowKeyOrderCheck ==
    /\ Running
    /\ IsRow
    /\ \E k \in Keys, next \in BOOLEAN :
         LET o == __bt_row_cursor_key_order_check(btree, [cbt EXCEPT !.key = k], next) IN
         /\ cbt' = o.cbt
         /\ call' = OrderCall("check", [pos |-> k, next |-> next, base |-> cbt.lastkey], o.ret)
         /\ returned' = IF o.ret = 0 THEN Extend(returned, k, next) ELSE returned
    /\ UNCHANGED <<ref, btree>>

KeyOrderReset ==
    /\ Running
    /\ cbt' = __bt_cursor_key_order_reset(cbt)
    /\ call' = OrderCall("reset", NULL, 0)
    /\ returned' = [start |-> "reset", dir |-> "none", seq |-> <<>>]
    /\ UNCHANGED <<ref, btree>>

OrderNext ==
    \/ ColKeyOrderInit
    \/ RowKeyOrderInit
    \/ ColKeyOrderCheck
    \/ RowKeyOrderCheck
    \/ KeyOrderReset

SpecOrder == OrderInit /\ [][OrderNext]_vars

\* ==================================================== properties: validity
Called(type) == call.op = "cursor_valid" /\ ref.page.type = type

OnPage == cbt.slot < ref.page.entries

HasRowUpdates == ref.page.modify # NULL /\ ref.page.modify.mod_row_update # NULL

\* What the resolver answers for the chain of the cursor's on-page slot.
SlotRead == __wt_txn_read(cbt.slot, ref.page.modify.mod_row_update.array[cbt.slot + 1])

\* C2, as stated: a fixed-length column-store cursor is reported valid if and
\* only if ref_recno <= recno < ref_recno + entries.
C2_BothBounds ==
    Called(WT_PAGE_COL_FIX) =>
        (call.valid <=> (ref.ref_recno <= cbt.recno
                         /\ cbt.recno < ref.ref_recno + ref.page.entries))

\* C2, amended: a fixed-length column-store cursor is reported valid if and
\* only if recno < ref_recno + entries; the check always returns 0.
C2_UpperBound ==
    Called(WT_PAGE_COL_FIX) =>
        /\ call.ret = 0
        /\ call.valid <=> (cbt.recno < ref.ref_recno + ref.page.entries)

\* A record number below the page's first one has been checked and found valid.
C2_Witness ==
    /\ Called(WT_PAGE_COL_FIX)
    /\ cbt.recno < ref.ref_recno
    /\ call.valid

\* C3: row store, non-empty page, no insert object, cursor on an on-page slot:
\* a visible tombstone makes the position invalid and returns no update; a
\* visible update of another type makes it valid and is the update returned
\* (when the caller passed updp); no update array, or no visible update, makes
\* it valid with no update returned.
C3_RowTombstoneOrUpdate ==
    (Called(WT_PAGE_ROW_LEAF) /\ ref.page.entries > 0 /\ cbt.ins = NULL) =>
        /\ ~HasRowUpdates => (call.ret = 0 /\ call.valid /\ call.upd = NULL)
        /\ (HasRowUpdates /\ OnPage /\ SlotRead.ret = 0) =>
              /\ call.ret = 0
              /\ IF SlotRead.upd = NULL THEN call.valid /\ call.upd = NULL
                 ELSE IF SlotRead.upd.type = WT_UPDATE_TOMBSTONE
                      THEN ~call.valid /\ call.upd = NULL
                 ELSE /\ call.valid
                      /\ call.upd = IF call.arg.updp THEN SlotRead.upd ELSE NULL

\* A visible update behind an invisible newer one has been returned.
C3_Witness ==
    /\ Called(WT_PAGE_ROW_LEAF)
    /\ cbt.ins = NULL
    /\ HasRowUpdates
    /\ OnPage
    /\ call.valid
    /\ call.upd # NULL
    /\ call.upd = SlotRead.upd
    /\ call.upd.idx = 2
    /\ call.upd.type = WT_UPDATE_STANDARD

\* The cell the variable-length check would read is on the page, or the check
\* returns before reading one.
VarCellDefined ==
    \/ OnPage
    \/ ref.page.entries = 0
    \/ (cbt.ins # NULL /\ ~cbt.WT_CBT_VAR_ONPAGE_MATCH)

\* C4: a variable-length column-store cursor is valid if and only if the page
\* is not empty, it is not the case that an insert object is set while the
\* on-page-match flag is clear, and the cell at cbt.slot is not a deleted cell.
C4_VarValidIff ==
    (Called(WT_PAGE_COL_VAR) /\ VarCellDefined) =>
        /\ call.ret = 0
        /\ call.valid <=>
              /\ ref.page.entries > 0
              /\ ~(cbt.ins # NULL /\ ~cbt.WT_CBT_VAR_ONPAGE_MATCH)
              /\ OnPage
              /\ ref.page.pg_var[cbt.slot + 1] # WT_CELL_DEL

\* Three entries, the middle one deleted, no insert object: slot 1 is invalid.
C4_Witness ==
    /\ Called(WT_PAGE_COL_VAR)
    /\ ref.page.pg_var = <<WT_CELL_VALUE, WT_CELL_DEL, WT_CELL_VALUE>>
    /\ cbt.slot = 1
    /\ cbt.ins = NULL
    /\ ~call.valid

\* C7: with an insert object set, the row-store check reports invalid and
\* never reads the slot's update chain nor calls the resolver.
C7_InsertPrecedence ==
    (Called(WT_PAGE_ROW_LEAF) /\ cbt.ins # NULL) =>
        /\ call.ret = 0
        /\ ~call.valid
        /\ call.upd = NULL
        /\ call.reads = {}

\* An insert object over a slot whose chain the resolver would fail on.
C7_Witness ==
    /\ Called(WT_PAGE_ROW_LEAF)
    /\ cbt.ins # NULL
    /\ HasRowUpdates
    /\ OnPage
    /\ SlotRead.ret = WT_PREPARE_CONFLICT
    /\ call.ret = 0

\* C9: when the resolver fails, the row-store check returns that failure, does
\* not report the position valid, returns no update, and leaves the page and
\* the cursor as they were; any failure it returns is the resolver's.
C9_ResolverFailure ==
    [][ (call'.op = "cursor_valid" /\ ref.page.type = WT_PAGE_ROW_LEAF) =>
            /\ ref' = ref /\ cbt' = cbt
            /\ (call'.ret # 0) => (~call'.valid /\ call'.upd = NULL
                                   /\ <<"__wt_txn_read", cbt.slot>> \in call'.reads)
            /\ (<<"__wt_txn_read", cbt.slot>> \in call'.reads /\ OnPage /\ SlotRead.ret # 0) =>
                  call'.ret = SlotRead.ret ]_vars

\* The resolver has failed on the chain of the cursor's slot.
C9_Witness ==
    /\ Called(WT_PAGE_ROW_LEAF)
    /\ OnPage
    /\ call.ret = WT_PREPARE_CONFLICT
    /\ ~call.valid

\* C10, as stated: the validity checks read the cell array and the update
\* array only at an index below page.entries.
C10_ReadsInBounds ==
    call.op = "cursor_valid" => \A rd \in call.reads : rd[2] < ref.page.entries

\* ============================================= properties: iteration setup
IsSmallest(h) == h # NULL /\ h = WT_ROW_INSERT_SMALLEST(ref.page)

\* The positions a cursor can name on the page: a slot allowed by
\* slot == UINT32_MAX || slot < entries, with or without an insert list.
Positions ==
    Slots(ref.page) \X (IF HasInsertLists(ref.page) THEN InsHeads ELSE {NULL})

\* Two positions are the same place: the smallest-key list whatever the slot,
\* else the same slot with the same kind of insert list.
SamePosition(p, q) ==
    IF IsSmallest(p[2]) \/ IsSmallest(q[2])
    THEN IsSmallest(p[2]) /\ IsSmallest(q[2])
    ELSE p = q

\* The logical slot the setup computes for position p.
LogicalSlot(p) ==
    __bt_row_cursor_iterate_setup([cbt EXCEPT !.slot = p[1], !.ins_head = p[2]], ref).row_iteration_slot

\* An insert list other than the smallest-key one with the slot at UINT32_MAX.
Wrapped(p) == p[1] = UINT32_MAX /\ p[2] # NULL /\ ~IsSmallest(p[2])

\* (slot + 1) * 2 + 1 fits the field.
Fits(p) == p[1] = UINT32_MAX \/ (p[1] + 1) * 2 + 1 < 2 ^ SlotBits

SetupDone == call.op = "iterate_setup"

\* The mapping itself, in the field's arithmetic, and its parity.
SlotMapping ==
    LET s == cbt.slot
        h == cbt.ins_head
        ris == cbt.row_iteration_slot
    IN  /\ h = NULL => (ris = U32((s + 1) * 2) /\ ris % 2 = 0)
        /\ IsSmallest(h) => ris = 1
        /\ (h # NULL /\ ~IsSmallest(h)) => ris = U32((s + 1) * 2 + 1)
        /\ h # NULL => ris % 2 = 1

\* C5, as stated: on-page slot s maps to (s+1)*2, the smallest-key list to 1,
\* the list after slot s to (s+1)*2+1, entries are even and lists odd, and no
\* two distinct positions map to the same logical slot.
C5_Bijection ==
    SetupDone =>
        /\ SlotMapping
        /\ \A q \in Positions :
              ~SamePosition(<<cbt.slot, cbt.ins_head>>, q) => LogicalSlot(q) # cbt.row_iteration_slot

\* C5, amended: the mapping and the parity hold in 32-bit arithmetic; positions
\* whose slot is on the page (with (s+1)*2+1 below 2^32), the smallest-key list
\* and the slot UINT32_MAX without an insert list map to distinct logical
\* slots; at slot UINT32_MAX the sum wraps, to 0 without an insert list and to
\* 1, the smallest-key list's slot, with any insert list.
C5_BijectionOnPage ==
    SetupDone =>
        /\ SlotMapping
        /\ cbt.slot = UINT32_MAX =>
              cbt.row_iteration_slot = IF cbt.ins_head = NULL THEN 0 ELSE 1
        /\ (~Wrapped(<<cbt.slot, cbt.ins_head>>) /\ Fits(<<cbt.slot, cbt.ins_head>>)) =>
              \A q \in Positions :
                 (~Wrapped(q) /\ Fits(q) /\ ~SamePosition(<<cbt.slot, cbt.ins_head>>, q))
                    => LogicalSlot(q) # cbt.row_iteration_slot

\* The setup has run on the list after the last on-page slot.
C5_Witness ==
    /\ SetupDone
    /\ ref.page.entries = MaxRowEntries
    /\ cbt.slot = MaxRowEntries - 1
    /\ cbt.ins_head # NULL
    /\ ~IsSmallest(cbt.ins_head)
    /\ cbt.row_iteration_slot = MaxRowEntries * 2 + 1

\* ================================================= properties: Huffman gate
\* C8: the gate fails with EINVAL for every length on fixed-length column
\* store, for every non-zero length on variable-length column store, succeeds
\* otherwise, and changes nothing.
C8_HuffmanGate ==
    [][ call'.op = "huffman" =>
            /\ UNCHANGED <<ref, cbt, btree, returned>>
            /\ btree.type = WT_PAGE_COL_FIX => call'.ret = EINVAL
            /\ btree.type = WT_PAGE_COL_VAR =>
                  call'.ret = IF call'.arg.len = 0 THEN 0 ELSE EINVAL
            /\ btree.type = WT_PAGE_ROW_LEAF => call'.ret = 0 ]_vars

\* A non-zero length has been refused for variable-length column store.
C8_Witness ==
    /\ call.op = "huffman"
    /\ btree.type = WT_PAGE_COL_VAR
    /\ call.arg.len = MaxLen
    /\ call.ret = EINVAL

\* ============================================ properties: key-order checker
PosCompare(a, b) ==
    IF IsCol THEN IF a < b THEN -1 ELSE IF a > b THEN 1 ELSE 0
    ELSE __wt_compare(btree.collator, a, b)

\* b follows a in the direction of travel.
InOrder(a, b, next) == IF next THEN PosCompare(a, b) < 0 ELSE PosCompare(a, b) > 0

HasBaseline(base) == IF IsCol THEN base # WT_RECNO_OOB ELSE Len(base) # 0

Baseline(c) == IF IsCol THEN c.lastrecno ELSE c.lastkey

\* C1: the positions returned by a run of passing checks in one direction are
\* strictly increasing (next) or strictly decreasing (prev) in the layout's
\* order; a check at a position equal to or on the wrong side of the baseline
\* panics and returns no success; a passing check makes its position the
\* baseline.
C1_StrictOrder ==
    /\ \A i \in 1..(Len(returned.seq) - 1) :
          InOrder(returned.seq[i], returned.seq[i + 1], returned.dir = "next")
    /\ returned.seq # <<>> => Baseline(cbt) = Last(returned.seq)
    /\ call.op = "check" =>
          /\ call.ret \in {0, WT_PANIC}
          /\ (HasBaseline(call.arg.base)
              /\ ~InOrder(call.arg.base, call.arg.pos, call.arg.next)) =>
                 (call.ret = WT_PANIC /\ Baseline(cbt) = call.arg.base)
          /\ call.ret = 0 =>
                /\ Baseline(cbt) = call.arg.pos
                /\ HasBaseline(call.arg.base) =>
                      InOrder(call.arg.base, call.arg.pos, call.arg.next)

\* Three keys have been returned in a row by passing forward checks.
C1_Witness ==
    /\ IsRow
    /\ call.op = "check"
    /\ returned.dir = "next"
    /\ Len(returned.seq) >= 3

\* C6: the check that follows a reset passes, whatever the layout, the
\* direction, the position and the baseline before the reset, and makes its
\* position the baseline; the check after it passes exactly when its position
\* follows that one in its direction.
C6_ResetThenCheck ==
    [][ /\ (call.op = "reset" /\ call'.op = "check") =>
              (call'.ret = 0 /\ Baseline(cbt') = call'.arg.pos)
        /\ (call.op = "check" /\ returned.start = "reset" /\ Len(returned.seq) = 1
            /\ returned.dir = "none" /\ call'.op = "check") =>
              /\ call'.arg.base = call.arg.pos
              /\ call'.ret = 0 <=> InOrder(call.arg.pos, call'.arg.pos, call'.arg.next) ]_vars

\* A reset has been followed by one passing check.
C6_Witness ==
    /\ call.op = "check"
    /\ call.ret = 0
    /\ returned.start = "reset"
    /\ returned.seq = <<call.arg.pos>>
    /\ ~HasBaseline(call.arg.base)

====
